---- MODULE Spec2Model ----
(***************************************************************************)
(* A model of src/useLocalStorage.ts: a React hook that keeps one key of a *)
(* Storage object in step with a component, filters "storage" events with  *)
(* a deep comparison of the parsed old and new texts, and writes through a *)
(* setter that supports updater functions and null removal.                *)
(*                                                                         *)
(* Texts are sequences of one-character strings; JSON values are tagged    *)
(* records [t |-> tag, v |-> payload]; objects keep their members in       *)
(* insertion order, as a JavaScript object does.                           *)
(***************************************************************************)
EXTENDS Integers, Sequences, FiniteSets, TLC

\* ------------------------------------------------------------------------
\* Bounds of the model
\* ------------------------------------------------------------------------
MaxQueue == 1      \* storage events dispatched and not yet delivered
MaxNum == 6        \* largest number an updater may produce

\* ------------------------------------------------------------------------
\* JSON values (type JsonValue, lines 4-11)
\* ------------------------------------------------------------------------
Q == "\""

JNull == [t |-> "null"]
JNum(n) == [t |-> "num", v |-> n]
JStr(cs) == [t |-> "str", v |-> cs]
JBool(b) == [t |-> "bool", v |-> b]
JArr(es) == [t |-> "arr", v |-> es]
JObj(ms) == [t |-> "obj", v |-> ms]
\* a value JSON.stringify rejects (a bigint): reachable only as a payload
JBigInt == [t |-> "bigint"]

Member(k, v) == [k |-> k, v |-> v]
Undefined == [t |-> "undefined"]

\* the key under which every object inherits an accessor from
\* Object.prototype, and what that accessor returns for a parsed object:
\* Object.prototype itself, an object with no enumerable key
ProtoKey == <<"_", "_", "p", "r", "o", "t", "o", "_", "_">>
ObjectPrototype == JObj(<<>>)

\* o[key] of a JavaScript object: the own member's value (JSON.parse makes
\* every member an own property, "__proto__" included); failing that, what
\* the prototype chain gives, Object.prototype for "__proto__"; failing
\* that, undefined. The other inherited names hold functions; no key of the
\* model is one of them.
GetMember(ms, key) ==
  IF \E i \in 1..Len(ms) : ms[i].k = key
  THEN ms[CHOOSE i \in 1..Len(ms) : ms[i].k = key].v
  ELSE IF key = ProtoKey THEN ObjectPrototype
  ELSE Undefined

\* o[key] = v: an existing member keeps its place, a new one goes last
PutMember(ms, key, val) ==
  IF \E i \in 1..Len(ms) : ms[i].k = key
  THEN [i \in 1..Len(ms) |-> IF ms[i].k = key THEN Member(key, val) ELSE ms[i]]
  ELSE Append(ms, Member(key, val))

\* ------------------------------------------------------------------------
\* JSON.parse (called at lines 93, 94, 116)
\* ------------------------------------------------------------------------
Digits == <<"0", "1", "2", "3", "4", "5", "6", "7", "8", "9">>
IsDigit(c) == \E d \in 1..10 : Digits[d] = c
DigitVal(c) == (CHOOSE d \in 1..10 : Digits[d] = c) - 1

At(s, i) == IF i >= 1 /\ i <= Len(s) THEN s[i] ELSE "EOF"

ParseFail == [ok |-> FALSE]
ParseOk(val, pos) == [ok |-> TRUE, val |-> val, pos |-> pos]

RECURSIVE SkipWs(_, _)
SkipWs(s, i) == IF At(s, i) = " " THEN SkipWs(s, i + 1) ELSE i

RECURSIVE MatchLit(_, _, _, _)
MatchLit(s, i, lit, n) ==
  IF n > Len(lit) THEN TRUE
  ELSE At(s, i + n - 1) = lit[n] /\ MatchLit(s, i, lit, n + 1)

RECURSIVE ScanInt(_, _, _)
ScanInt(s, i, acc) ==
  IF IsDigit(At(s, i)) THEN ScanInt(s, i + 1, acc * 10 + DigitVal(At(s, i)))
  ELSE ParseOk(JNum(acc), i)

ParseNumber(s, i) ==
  IF At(s, i) = "0" THEN ParseOk(JNum(0), i + 1) ELSE ScanInt(s, i, 0)

RECURSIVE ScanString(_, _, _)
ScanString(s, i, acc) ==
  IF At(s, i) = "EOF" THEN ParseFail
  ELSE IF At(s, i) = Q THEN ParseOk(JStr(acc), i + 1)
  ELSE ScanString(s, i + 1, Append(acc, s[i]))

ParseString(s, i) == ScanString(s, i + 1, <<>>)

RECURSIVE ParseValue(_, _)
RECURSIVE ParseElems(_, _, _)
RECURSIVE ParseMembers(_, _, _)

ParseElems(s, i, acc) ==
  LET r == ParseValue(s, i) IN
  IF ~r.ok THEN ParseFail
  ELSE LET j == SkipWs(s, r.pos) IN
       IF At(s, j) = "," THEN ParseElems(s, j + 1, Append(acc, r.val))
       ELSE IF At(s, j) = "]" THEN ParseOk(JArr(Append(acc, r.val)), j + 1)
       ELSE ParseFail

ParseMembers(s, i, acc) ==
  LET j == SkipWs(s, i) IN
  IF At(s, j) # Q THEN ParseFail
  ELSE LET k == ParseString(s, j) IN
       IF ~k.ok THEN ParseFail
       ELSE LET c == SkipWs(s, k.pos) IN
            IF At(s, c) # ":" THEN ParseFail
            ELSE LET r == ParseValue(s, c + 1) IN
                 IF ~r.ok THEN ParseFail
                 ELSE LET m == SkipWs(s, r.pos)
                          ms == PutMember(acc, k.val.v, r.val) IN
                      IF At(s, m) = "," THEN ParseMembers(s, m + 1, ms)
                      ELSE IF At(s, m) = "}" THEN ParseOk(JObj(ms), m + 1)
                      ELSE ParseFail

ParseValue(s, i) ==
  LET j == SkipWs(s, i)
      c == At(s, j) IN
  IF c = "n" THEN
    IF MatchLit(s, j, <<"n", "u", "l", "l">>, 1) THEN ParseOk(JNull, j + 4) ELSE ParseFail
  ELSE IF c = "t" THEN
    IF MatchLit(s, j, <<"t", "r", "u", "e">>, 1) THEN ParseOk(JBool(TRUE), j + 4) ELSE ParseFail
  ELSE IF c = "f" THEN
    IF MatchLit(s, j, <<"f", "a", "l", "s", "e">>, 1) THEN ParseOk(JBool(FALSE), j + 5) ELSE ParseFail
  ELSE IF IsDigit(c) THEN ParseNumber(s, j)
  ELSE IF c = Q THEN ParseString(s, j)
  ELSE IF c = "[" THEN
    IF At(s, SkipWs(s, j + 1)) = "]" THEN ParseOk(JArr(<<>>), SkipWs(s, j + 1) + 1)
    ELSE ParseElems(s, j + 1, <<>>)
  ELSE IF c = "{" THEN
    IF At(s, SkipWs(s, j + 1)) = "}" THEN ParseOk(JObj(<<>>), SkipWs(s, j + 1) + 1)
    ELSE ParseMembers(s, j + 1, <<>>)
  ELSE ParseFail

\* JSON.parse(text): [ok |-> TRUE, val |-> value], or ok = FALSE for a SyntaxError
JSONparse(s) ==
  LET r == ParseValue(s, 1) IN
  IF r.ok /\ SkipWs(s, r.pos) = Len(s) + 1 THEN [ok |-> TRUE, val |-> r.val]
  ELSE ParseFail

\* ------------------------------------------------------------------------
\* JSON.stringify (called at lines 154, 175)
\* ------------------------------------------------------------------------
RECURSIVE NumChars(_)
NumChars(n) ==
  IF n < 10 THEN <<Digits[n + 1]>>
  ELSE NumChars(n \div 10) \o <<Digits[(n % 10) + 1]>>

RECURSIVE CanStringify(_)
CanStringify(v) ==
  CASE v.t = "bigint" -> FALSE
    [] v.t = "arr" -> \A i \in 1..Len(v.v) : CanStringify(v.v[i])
    [] v.t = "obj" -> \A i \in 1..Len(v.v) : CanStringify(v.v[i].v)
    [] OTHER -> TRUE

RECURSIVE JSONstringify(_)
RECURSIVE JoinElems(_, _)
RECURSIVE JoinMembers(_, _)

JoinElems(es, i) ==
  IF i > Len(es) THEN <<>>
  ELSE (IF i > 1 THEN <<",">> ELSE <<>>) \o JSONstringify(es[i]) \o JoinElems(es, i + 1)

JoinMembers(ms, i) ==
  IF i > Len(ms) THEN <<>>
  ELSE (IF i > 1 THEN <<",">> ELSE <<>>)
       \o <<Q>> \o ms[i].k \o <<Q, ":">> \o JSONstringify(ms[i].v)
       \o JoinMembers(ms, i + 1)

JSONstringify(v) ==
  CASE v.t = "null" -> <<"n", "u", "l", "l">>
    [] v.t = "bool" -> IF v.v THEN <<"t", "r", "u", "e">> ELSE <<"f", "a", "l", "s", "e">>
    [] v.t = "num" -> NumChars(v.v)
    [] v.t = "str" -> <<Q>> \o v.v \o <<Q>>
    [] v.t = "arr" -> <<"[">> \o JoinElems(v.v, 1) \o <<"]">>
    [] v.t = "obj" -> <<"{">> \o JoinMembers(v.v, 1) \o <<"}">>

\* ------------------------------------------------------------------------
\* deepEqual (lines 182-238)
\* ------------------------------------------------------------------------
\* typeof v === "object": arrays, objects and null
TypeofObject(v) == v.t \in {"null", "arr", "obj"}

\* v1 === v2: primitives by value; two parsed arrays or objects are never
\* the same reference
StrictEqual(v1, v2) == v1.t \in {"null", "num", "str", "bool"} /\ v1 = v2

\* a comparison that also compares the order of an object's members
deepEqual_Ordered(v1, v2) == v1 = v2

RECURSIVE deepEqual(_, _)
deepEqual(v1, v2) ==
  IF StrictEqual(v1, v2) THEN TRUE
  ELSE IF ~TypeofObject(v1) \/ ~TypeofObject(v2) THEN FALSE
  ELSE IF v1.t = "null" \/ v2.t = "null" THEN FALSE
  ELSE IF v1.t = "arr" THEN
    IF v2.t # "arr" THEN FALSE
    ELSE IF Len(v1.v) # Len(v2.v) THEN FALSE
    ELSE \A i \in 1..Len(v1.v) : deepEqual(v1.v[i], v2.v[i])
  ELSE IF v2.t = "arr" THEN FALSE
  ELSE IF Len(v1.v) # Len(v2.v) THEN FALSE
  ELSE \A i \in 1..Len(v1.v) :
         LET objValue1 == v1.v[i].v
             objValue2 == GetMember(v2.v, v1.v[i].k) IN
         /\ objValue2 # Undefined
         /\ deepEqual(objValue1, objValue2)

\* ------------------------------------------------------------------------
\* Texts and values of the model
\* ------------------------------------------------------------------------
\* getItem's null: the key has no entry
Absent == <<"ABSENT">>

TObjAB == <<"{", Q, "a", Q, ":", "1", ",", Q, "b", Q, ":", "2", "}">>
TObjBA == <<"{", Q, "b", Q, ":", "2", ",", Q, "a", Q, ":", "1", "}">>
TBad == <<"{", "b", "a", "d">>
TNull == <<"n", "u", "l", "l">>

\* what the watched key may hold when the component first renders
InitialTexts == {Absent, TObjAB, TObjBA, TBad, TNull}

\* what another browsing context writes under a key while the hook runs
ExternalTexts == {Absent, TObjAB, TObjBA, TBad}

Keys == {"target", "other"}

\* the fallbackValue option: undefined, or a JSON value
Fallbacks == {Undefined, JNum(5)}

\* payloads of the setter: literal values and updater functions
VObjAB == JObj(<<Member(<<"a">>, JNum(1)), Member(<<"b">>, JNum(2))>>)
Literals == {JNull, VObjAB, JBigInt}
Updaters == {"increment", "throws"}

\* ------------------------------------------------------------------------
\* State
\* ------------------------------------------------------------------------
VARIABLES
  store,                \* the bound Storage object: key -> text or Absent
  key,                  \* options.key of the latest render
  fallbackValue,        \* options.fallbackValue of the latest render
  removeNullValues,     \* options.removeNullValues
  storageValue,         \* the snapshot the latest render got from useSyncExternalStore
  listeners,            \* keys of the onStorageUpdate closures registered on window
  queue,                \* storage events dispatched and not yet delivered
  phase,                \* "rendered", "subscribed", "mounted", "unmounted"
  last                  \* what the latest operation of the hook did

vars == <<store, key, fallbackValue, removeNullValues,
          storageValue, listeners, queue, phase, last>>

NoEvent == [storageArea |-> "none"]

\* the record of an operation: calls of notifyReact and of onError, whether an
\* exception left the operation, what failed inside it ("none", "updater",
\* "encode", "setItem", "removeItem"), which store mutator was called, the
\* argument an updater received, the event a listener was handed, the new
\* value the setter resolved, the syncFallbackOnMount option the mount
\* effect ran with
Did(op, notify, errors, threw, failed, mutator, arg, event) ==
  [op |-> op, notify |-> notify, errors |-> errors, threw |-> threw,
   failed |-> failed, mutator |-> mutator, arg |-> arg, event |-> event,
   newValue |-> Undefined, syncFallbackOnMount |-> FALSE]

DidMount(syncFallbackOnMount, threw, failed, mutator) ==
  [Did("mountSync", 0, 0, threw, failed, mutator, Undefined, NoEvent)
     EXCEPT !.syncFallbackOnMount = syncFallbackOnMount]

\* a setter that calls the subscription's notify after its own write
DidSet_Notifies(errors, threw, failed, mutator, arg, newValue) ==
  [Did("setValue", IF failed = "none" THEN 1 ELSE 0, errors, threw, failed,
       mutator, arg, NoEvent)
     EXCEPT !.newValue = newValue]

DidSet(errors, threw, failed, mutator, arg, newValue) ==
  [Did("setValue", 0, errors, threw, failed, mutator, arg, NoEvent)
     EXCEPT !.newValue = newValue]

\* ------------------------------------------------------------------------
\* readFromLocalStorage (lines 109-122)
\* ------------------------------------------------------------------------
\* a read that swallows the SyntaxError without reporting it
readFromLocalStorage_Silent(st, k) ==
  LET payload == st[k] IN
  IF payload = Absent THEN [value |-> JNull, errors |-> 0]
  ELSE LET parsed == JSONparse(payload) IN
       IF parsed.ok THEN [value |-> parsed.val, errors |-> 0]
       ELSE [value |-> JNull, errors |-> 0]

readFromLocalStorage(st, k) ==
  LET payload == st[k] IN
  IF payload = Absent THEN [value |-> JNull, errors |-> 0]
  ELSE LET parsed == JSONparse(payload) IN
       IF parsed.ok THEN [value |-> parsed.val, errors |-> 0]
       ELSE [value |-> JNull, errors |-> 1]

\* a hookValue that never applies the fallback
HookValueOf_NoFallback(sv, fb) == sv

\* hookValue (lines 129-132)
HookValueOf(sv, fb) == IF sv = JNull /\ fb # Undefined THEN fb ELSE sv
hookValue == HookValueOf(storageValue, fallbackValue)

\* ------------------------------------------------------------------------
\* onStorageUpdate (lines 74-101), for a listener closed over key k
\* ------------------------------------------------------------------------
\* a filter that ignores an event only when both the store and the key differ
onStorageUpdate_IgnoreBoth(event, k) ==
  LET canIgnore == event.storageArea # "localStorage" /\ event.key # k IN
  IF canIgnore THEN [notify |-> 0, errors |-> 0]
  ELSE IF event.oldValue = Absent \/ event.newValue = Absent THEN
    IF event.oldValue # event.newValue THEN [notify |-> 1, errors |-> 0]
    ELSE [notify |-> 0, errors |-> 0]
  ELSE LET oldParsed == JSONparse(event.oldValue)
           newParsed == JSONparse(event.newValue) IN
       IF ~oldParsed.ok \/ ~newParsed.ok THEN [notify |-> 0, errors |-> 1]
       ELSE IF ~deepEqual(oldParsed.val, newParsed.val) THEN [notify |-> 1, errors |-> 0]
       ELSE [notify |-> 0, errors |-> 0]

\* a filter without the early return for a missing old or new text
onStorageUpdate_NoAbsentCase(event, k) ==
  LET canIgnore == event.storageArea # "localStorage" \/ event.key # k IN
  IF canIgnore THEN [notify |-> 0, errors |-> 0]
  ELSE LET oldParsed == JSONparse(event.oldValue)
           newParsed == JSONparse(event.newValue) IN
       IF ~oldParsed.ok \/ ~newParsed.ok THEN [notify |-> 0, errors |-> 1]
       ELSE IF ~deepEqual(oldParsed.val, newParsed.val) THEN [notify |-> 1, errors |-> 0]
       ELSE [notify |-> 0, errors |-> 0]

\* a filter whose catch block reports the error and then signals a change
onStorageUpdate_NotifyOnError(event, k) ==
  LET canIgnore == event.storageArea # "localStorage" \/ event.key # k IN
  IF canIgnore THEN [notify |-> 0, errors |-> 0]
  ELSE IF event.oldValue = Absent \/ event.newValue = Absent THEN
    IF event.oldValue # event.newValue THEN [notify |-> 1, errors |-> 0]
    ELSE [notify |-> 0, errors |-> 0]
  ELSE LET oldParsed == JSONparse(event.oldValue)
           newParsed == JSONparse(event.newValue) IN
       IF ~oldParsed.ok \/ ~newParsed.ok THEN [notify |-> 1, errors |-> 1]
       ELSE IF ~deepEqual(oldParsed.val, newParsed.val) THEN [notify |-> 1, errors |-> 0]
       ELSE [notify |-> 0, errors |-> 0]

onStorageUpdate(event, k) ==
  LET canIgnore == event.storageArea # "localStorage" \/ event.key # k IN
  IF canIgnore THEN [notify |-> 0, errors |-> 0]
  ELSE IF event.oldValue = Absent \/ event.newValue = Absent THEN
    IF event.oldValue # event.newValue THEN [notify |-> 1, errors |-> 0]
    ELSE [notify |-> 0, errors |-> 0]
  ELSE LET oldParsed == JSONparse(event.oldValue)
           newParsed == JSONparse(event.newValue) IN
       IF ~oldParsed.ok \/ ~newParsed.ok THEN [notify |-> 0, errors |-> 1]
       ELSE IF ~deepEqual(oldParsed.val, newParsed.val) THEN [notify |-> 1, errors |-> 0]
       ELSE [notify |-> 0, errors |-> 0]

\* ------------------------------------------------------------------------
\* Initial state: the first render has run, its effects have not
\* ------------------------------------------------------------------------
Init ==
  /\ store \in [Keys -> InitialTexts]
  /\ store["other"] = Absent
  /\ key = "target"
  /\ fallbackValue \in Fallbacks
  /\ removeNullValues \in BOOLEAN
  /\ storageValue = readFromLocalStorage(store, key).value
  /\ listeners = {}
  /\ queue = <<>>
  /\ phase = "rendered"
  /\ last = Did("render", 0, readFromLocalStorage(store, key).errors, FALSE,
                "none", "none", Undefined, NoEvent)

\* ------------------------------------------------------------------------
\* The hook's operations
\* ------------------------------------------------------------------------
\* the effect of useSyncExternalStore: subscribeToLocalStorage (lines 72-107)
Subscribe ==
  /\ phase = "rendered"
  /\ listeners' = listeners \cup {key}
  /\ phase' = "subscribed"
  /\ last' = Did("subscribe", 0, 0, FALSE, "none", "none", Undefined, NoEvent)
  /\ UNCHANGED <<store, key, fallbackValue, removeNullValues, storageValue, queue>>

\* the mount effect (lines 166-177), run with the syncFallbackOnMount option
\* of the first render, which nothing else reads; setItem may throw
MountSync(syncFallbackOnMount) ==
  /\ phase = "subscribed"
  /\ phase' = "mounted"
  /\ LET canSyncOnMount == /\ syncFallbackOnMount
                           /\ storageValue = JNull
                           /\ fallbackValue # Undefined IN
     IF ~canSyncOnMount
     THEN /\ store' = store
          /\ last' = DidMount(syncFallbackOnMount, FALSE, "none", "none")
     ELSE \E setItemThrows \in BOOLEAN :
            IF setItemThrows
            THEN /\ store' = store
                 /\ last' = DidMount(syncFallbackOnMount, TRUE, "setItem", "setItem")
            ELSE /\ store' = [store EXCEPT ![key] = JSONstringify(fallbackValue)]
                 /\ last' = DidMount(syncFallbackOnMount, FALSE, "none", "setItem")
  /\ UNCHANGED <<key, fallbackValue, removeNullValues, storageValue, listeners, queue>>

\* a render whose mount effect runs again (an effect with no dependency
\* array, the option being on)
Render_Resync(newKey, newFallback) ==
  /\ phase = "mounted"
  /\ key' = newKey
  /\ fallbackValue' = newFallback
  /\ storageValue' = readFromLocalStorage(store, newKey).value
  /\ listeners' = IF newKey = key THEN listeners
                  ELSE (listeners \ {key}) \cup {newKey}
  /\ last' = Did("render", 0, readFromLocalStorage(store, newKey).errors, FALSE,
                 "none", "none", Undefined, NoEvent)
  /\ store' = IF /\ readFromLocalStorage(store, newKey).value = JNull
                 /\ newFallback # Undefined
              THEN [store EXCEPT ![newKey] = JSONstringify(newFallback)]
              ELSE store
  /\ UNCHANGED <<removeNullValues, queue, phase>>

\* a render after which the subscription keeps the listener of the key it
\* was first given (a subscribe callback whose identity never changes)
Render_KeepsListener(newKey, newFallback) ==
  /\ phase = "mounted"
  /\ key' = newKey
  /\ fallbackValue' = newFallback
  /\ storageValue' = readFromLocalStorage(store, newKey).value
  /\ listeners' = listeners
  /\ last' = Did("render", 0, readFromLocalStorage(store, newKey).errors, FALSE,
                 "none", "none", Undefined, NoEvent)
  /\ UNCHANGED <<store, removeNullValues, queue, phase>>

\* a render whose read() keeps the value it decoded earlier instead of
\* asking the store again
Render_Cached(newKey, newFallback) ==
  /\ phase = "mounted"
  /\ key' = newKey
  /\ fallbackValue' = newFallback
  /\ storageValue' = IF storageValue # JNull THEN storageValue
                     ELSE readFromLocalStorage(store, newKey).value
  /\ listeners' = IF newKey = key THEN listeners
                  ELSE (listeners \ {key}) \cup {newKey}
  /\ last' = Did("render", 0, readFromLocalStorage(store, newKey).errors, FALSE,
                 "none", "none", Undefined, NoEvent)
  /\ UNCHANGED <<store, removeNullValues, queue, phase>>

\* a later render of the component (lines 53-133), possibly with a new key or
\* fallbackValue; a new key gives subscribeToLocalStorage a new identity and
\* useSyncExternalStore swaps the listener (lines 67-72, 103-106)
Render(newKey, newFallback) ==
  /\ phase = "mounted"
  /\ key' = newKey
  /\ fallbackValue' = newFallback
  /\ storageValue' = readFromLocalStorage(store, newKey).value
  /\ listeners' = IF newKey = key THEN listeners
                  ELSE (listeners \ {key}) \cup {newKey}
  /\ last' = Did("render", 0, readFromLocalStorage(store, newKey).errors, FALSE,
                 "none", "none", Undefined, NoEvent)
  /\ UNCHANGED <<store, removeNullValues, queue, phase>>

\* a setter that writes the text "null" where it should remove the key
WriteNewValue_NeverRemoves(newValue, arg, storeThrows) ==
  IF ~CanStringify(newValue)
    THEN /\ store' = store
         /\ last' = DidSet(1, FALSE, "encode", "none", arg, newValue)
  ELSE IF storeThrows
    THEN /\ store' = store
         /\ last' = DidSet(1, FALSE, "setItem", "setItem", arg, newValue)
  ELSE /\ store' = [store EXCEPT ![key] = JSONstringify(newValue)]
       /\ last' = DidSet(0, FALSE, "none", "setItem", arg, newValue)

\* a setter that removes the key on every null, whatever removeNullValues is
WriteNewValue_AlwaysRemoves(newValue, arg, storeThrows) ==
  IF newValue = JNull THEN
    IF storeThrows
    THEN /\ store' = store
         /\ last' = DidSet(0, TRUE, "removeItem", "removeItem", arg, newValue)
    ELSE /\ store' = [store EXCEPT ![key] = Absent]
         /\ last' = DidSet(0, FALSE, "none", "removeItem", arg, newValue)
  ELSE IF ~CanStringify(newValue)
    THEN /\ store' = store
         /\ last' = DidSet(1, FALSE, "encode", "none", arg, newValue)
  ELSE IF storeThrows
    THEN /\ store' = store
         /\ last' = DidSet(1, FALSE, "setItem", "setItem", arg, newValue)
  ELSE /\ store' = [store EXCEPT ![key] = JSONstringify(newValue)]
       /\ last' = DidSet(0, FALSE, "none", "setItem", arg, newValue)

\* the rest of setLocalStorageValue once newValue is known (lines 148-158);
\* removeItem and setItem may throw
WriteNewValue(newValue, arg, storeThrows) ==
  IF newValue = JNull /\ removeNullValues THEN
    IF storeThrows
    THEN /\ store' = store
         /\ last' = DidSet(0, TRUE, "removeItem", "removeItem", arg, newValue)
    ELSE /\ store' = [store EXCEPT ![key] = Absent]
         /\ last' = DidSet(0, FALSE, "none", "removeItem", arg, newValue)
  ELSE IF ~CanStringify(newValue)
    THEN /\ store' = store
         /\ last' = DidSet(1, FALSE, "encode", "none", arg, newValue)
  ELSE IF storeThrows
    THEN /\ store' = store
         /\ last' = DidSet(1, FALSE, "setItem", "setItem", arg, newValue)
  ELSE /\ store' = [store EXCEPT ![key] = JSONstringify(newValue)]
       /\ last' = DidSet(0, FALSE, "none", "setItem", arg, newValue)

\* setLocalStorageValue (lines 134-160) with a literal payload
SetValueLiteral(payload, storeThrows) ==
  /\ phase = "mounted"
  /\ WriteNewValue(payload, Undefined, storeThrows)
  /\ UNCHANGED <<key, fallbackValue, removeNullValues, storageValue, listeners,
                 queue, phase>>

\* the updater functions the model calls the setter with
UpdaterApplies(f, cur) ==
  \/ f = "throws"
  \/ f = "increment" /\ cur.t = "num" /\ cur.v < MaxNum

ApplyUpdater(f, cur) == JNum(cur.v + 1)

\* a setter whose catch block reports the error and does not return, and
\* goes on to remove the key
SetValueUpdater_NoReturn(f, storeThrows) ==
  /\ phase = "mounted"
  /\ UpdaterApplies(f, hookValue)
  /\ IF f = "throws"
     THEN /\ store' = [store EXCEPT ![key] = Absent]
          /\ last' = Did("setValue", 0, 1, FALSE, "updater", "removeItem", hookValue, NoEvent)
     ELSE WriteNewValue(ApplyUpdater(f, hookValue), hookValue, storeThrows)
  /\ UNCHANGED <<key, fallbackValue, removeNullValues, storageValue, listeners,
                 queue, phase>>

\* setLocalStorageValue with an updater function (lines 137-143)
SetValueUpdater(f, storeThrows) ==
  /\ phase = "mounted"
  /\ UpdaterApplies(f, hookValue)
  /\ IF f = "throws"
     THEN /\ store' = store
          /\ last' = Did("setValue", 0, 1, FALSE, "updater", "none", hookValue, NoEvent)
     ELSE WriteNewValue(ApplyUpdater(f, hookValue), hookValue, storeThrows)
  /\ UNCHANGED <<key, fallbackValue, removeNullValues, storageValue, listeners,
                 queue, phase>>

\* a cleanup that hands removeEventListener another function than the one
\* that was registered, so the listener stays
Unmount_KeepsListener ==
  /\ phase = "mounted"
  /\ phase' = "unmounted"
  /\ listeners' = listeners
  /\ last' = Did("unsubscribe", 0, 0, FALSE, "none", "none", Undefined, NoEvent)
  /\ UNCHANGED <<store, key, fallbackValue, removeNullValues, storageValue, queue>>

\* the cleanup of the subscription (line 104)
Unmount ==
  /\ phase = "mounted"
  /\ phase' = "unmounted"
  /\ listeners' = listeners \ {key}
  /\ last' = Did("unsubscribe", 0, 0, FALSE, "none", "none", Undefined, NoEvent)
  /\ UNCHANGED <<store, key, fallbackValue, removeNullValues, storageValue, queue>>

\* ------------------------------------------------------------------------
\* The environment: other browsing contexts and the event loop
\* ------------------------------------------------------------------------
StorageEvent(area, k, old, new) ==
  [storageArea |-> area, key |-> k, oldValue |-> old, newValue |-> new]

Idle == Did("idle", 0, 0, FALSE, "none", "none", Undefined, NoEvent)

\* another context sets or removes a key of the bound store; the browser
\* queues a storage event for this window
ExternalWrite(k, text) ==
  /\ Len(queue) < MaxQueue
  /\ text # store[k]
  /\ store' = [store EXCEPT ![k] = text]
  /\ queue' = Append(queue, StorageEvent("localStorage", k, store[k], text))
  /\ last' = Idle
  /\ UNCHANGED <<key, fallbackValue, removeNullValues, storageValue, listeners,
                 phase>>

\* a storage event the bound store did not cause: another Storage object
\* changed, or a script dispatched the event itself
ForeignEvent(event) ==
  /\ Len(queue) < MaxQueue
  /\ queue' = Append(queue, event)
  /\ last' = Idle
  /\ UNCHANGED <<store, key, fallbackValue, removeNullValues, storageValue,
                 listeners, phase>>

\* the event loop hands the oldest event to every registered listener
Deliver ==
  /\ queue # <<>>
  /\ LET event == Head(queue) IN
     last' = Did("event",
                 Cardinality({k \in listeners : onStorageUpdate(event, k).notify = 1}),
                 Cardinality({k \in listeners : onStorageUpdate(event, k).errors = 1}),
                 FALSE, "none", "none", Undefined, event)
  /\ queue' = Tail(queue)
  /\ UNCHANGED <<store, key, fallbackValue, removeNullValues, storageValue,
                 listeners, phase>>

\* the events ForeignEvent dispatches: changes of another key of the bound
\* store (the hook never reads that key, so its text is not kept), changes
\* of another Storage object, and a synthetic event with no old and no new
\* text
ForeignEvents ==
  {StorageEvent("localStorage", "other", Absent, TObjAB),
   StorageEvent("localStorage", "other", TObjAB, TBad),
   StorageEvent("sessionStorage", "target", Absent, TObjAB),
   StorageEvent("sessionStorage", "target", TObjAB, TBad),
   StorageEvent("localStorage", "target", Absent, Absent)}

Next ==
  \/ Subscribe
  \/ \E sync \in BOOLEAN : MountSync(sync)
  \/ \E fb \in Fallbacks : Render(key, fb)
  \/ \E v \in Literals, storeThrows \in BOOLEAN : SetValueLiteral(v, storeThrows)
  \/ \E f \in Updaters, storeThrows \in BOOLEAN : SetValueUpdater(f, storeThrows)
  \/ Unmount
  \/ \E text \in ExternalTexts : ExternalWrite(key, text)
  \/ \E event \in ForeignEvents : ForeignEvent(event)
  \/ Deliver

Spec == Init /\ [][Next]_vars

\* ------------------------------------------------------------------------
\* The hook under a component that changes the key it watches
\* ------------------------------------------------------------------------
\* the texts the two keys hold in this specification
RekeyTexts == {Absent, TObjAB, TObjBA}

InitRekey ==
  /\ Init
  /\ fallbackValue = Undefined
  /\ removeNullValues
  /\ store[key] \in RekeyTexts

NextRekey ==
  \/ Subscribe
  \/ MountSync(FALSE)
  \/ \E k \in Keys : Render(k, fallbackValue)
  \/ Unmount
  \/ \E k \in Keys, text \in RekeyTexts : ExternalWrite(k, text)
  \/ Deliver

SpecRekey == InitRekey /\ [][NextRekey]_vars

\* ------------------------------------------------------------------------
\* deepEqual on its own: every pair of bounded JSON values
\* ------------------------------------------------------------------------
\* the longest array and the most members of an object
MaxLen == 2

EqPrims == {JNull, JNum(1), JStr(<<"1">>)}
EqKeys == {<<"a">>, ProtoKey}
EqLeaves == EqPrims \cup {JArr(<<>>), JObj(<<>>)}

SeqsUpTo(S, n) == UNION {[1..m -> S] : m \in 1..n}

DistinctKeys(ms) == \A i, j \in 1..Len(ms) : ms[i].k = ms[j].k => i = j

EqArrays == {JArr(es) : es \in SeqsUpTo(EqLeaves, MaxLen)}
EqObjects ==
  {JObj(ms) : ms \in {m \in SeqsUpTo([k : EqKeys, v : EqLeaves], MaxLen) :
                        DistinctKeys(m)}}
JsonValues == EqLeaves \cup EqArrays \cup EqObjects

\* a caller holds two JSON values; the hook is not involved
InitDeepEqual ==
  /\ store = [k \in Keys |-> Absent]
  /\ key = "target"
  /\ fallbackValue = Undefined
  /\ removeNullValues = TRUE
  /\ storageValue = JNull
  /\ listeners = {}
  /\ queue = <<>>
  /\ phase = "rendered"
  /\ \E v1, v2 \in JsonValues :
       last = [op |-> "args", v1 |-> v1, v2 |-> v2, result |-> FALSE]

\* the call deepEqual(v1, v2)
CallDeepEqual ==
  /\ last.op = "args"
  /\ last' = [last EXCEPT !.op = "deepEqual",
                          !.result = deepEqual(last.v1, last.v2)]
  /\ UNCHANGED <<store, key, fallbackValue, removeNullValues, storageValue,
                 listeners, queue, phase>>

NextDeepEqual == CallDeepEqual

SpecDeepEqual == InitDeepEqual /\ [][NextDeepEqual]_vars

\* ------------------------------------------------------------------------
\* Reference notions the properties are stated with
\* ------------------------------------------------------------------------
\* structural equality of JSON values: same type, same primitive, arrays
\* element by element, objects by key set and member values
MemberKeys(ms) == {ms[i].k : i \in 1..Len(ms)}

RECURSIVE StructurallyEqual(_, _)
StructurallyEqual(a, b) ==
  /\ a.t = b.t
  /\ CASE a.t \in {"num", "str", "bool"} -> a.v = b.v
       [] a.t = "arr" -> /\ Len(a.v) = Len(b.v)
                         /\ \A i \in 1..Len(a.v) : StructurallyEqual(a.v[i], b.v[i])
       [] a.t = "obj" -> /\ MemberKeys(a.v) = MemberKeys(b.v)
                         /\ \A m \in MemberKeys(a.v) :
                              StructurallyEqual(GetMember(a.v, m), GetMember(b.v, m))
       [] OTHER -> TRUE

\* what read() returns when the watched key holds the given text
ReadOfText(text) == readFromLocalStorage([k \in Keys |-> text], key).value

Malformed(text) == text # Absent /\ ~JSONparse(text).ok
Decodes(text) == text # Absent /\ JSONparse(text).ok

\* the latest step delivered an event for the watched key of the bound
\* store to the subscribed listener
DeliveredToWatcher ==
  /\ last.op = "event"
  /\ key \in listeners
  /\ last.event.storageArea = "localStorage"
  /\ last.event.key = key

\* ------------------------------------------------------------------------
\* C1. No missed updates: whenever an event for the watched key of the
\* bound store is delivered to the subscribed listener and read() over the
\* old text differs from read() over the new text (a malformed text reads
\* as null), the listener calls notify.
\* ------------------------------------------------------------------------
C1_NoMissedUpdates ==
  DeliveredToWatcher =>
    (~StructurallyEqual(ReadOfText(last.event.oldValue), ReadOfText(last.event.newValue))
       => last.notify >= 1)

\* ------------------------------------------------------------------------
\* C3. Cross-key and cross-store isolation: an event whose key is not the
\* watched key, or whose store is not the bound store, leads to no call of
\* notify and no call of onError, whatever its texts are.
\* ------------------------------------------------------------------------
C3_Isolation ==
  (/\ last.op = "event"
   /\ (last.event.key # key \/ last.event.storageArea # "localStorage"))
    => (last.notify = 0 /\ last.errors = 0)

\* a subscribed listener was handed an event of another store, for the
\* watched key, whose new text is malformed
C3_Witness ==
  /\ last.op = "event"
  /\ key \in listeners
  /\ last.event.storageArea = "sessionStorage"
  /\ last.event.key = key
  /\ Malformed(last.event.newValue)

\* ------------------------------------------------------------------------
\* C4. Creation and deletion always signal: for an event on the watched key
\* of the bound store with exactly one of old text and new text absent, the
\* listener calls notify exactly once and onError never, whatever the
\* present text is; with both absent it calls notify zero times.
\* ------------------------------------------------------------------------
C4_CreationDeletion ==
  DeliveredToWatcher =>
    LET oldAbsent == last.event.oldValue = Absent
        newAbsent == last.event.newValue = Absent IN
    /\ (oldAbsent # newAbsent) => (last.notify = 1 /\ last.errors = 0)
    /\ (oldAbsent /\ newAbsent) => last.notify = 0

\* the listener was handed the creation of a malformed entry
C4_Witness ==
  /\ DeliveredToWatcher
  /\ last.event.oldValue = Absent
  /\ Malformed(last.event.newValue)
  /\ last.notify = 1

EffectiveValue(text, fb) ==
  HookValueOf(readFromLocalStorage([k \in Keys |-> text], key).value, fb)

\* ------------------------------------------------------------------------
\* C2. Functional update uses the current effective value: whenever the
\* setter is called with an updater, the argument the updater receives
\* equals the effective value derived from the store's contents at the
\* moment of the call.
\* ------------------------------------------------------------------------
C2_UpdaterGetsCurrentValue ==
  [][(last'.op = "setValue" /\ last'.arg # Undefined)
       => StructurallyEqual(last'.arg, EffectiveValue(store[key], fallbackValue))]_vars

\* ------------------------------------------------------------------------
\* C6. Malformed data yields null plus one error: read() returns null and
\* reports nothing when the key is absent, returns the decoded value and
\* reports nothing when the text is well-formed, and for a malformed text
\* returns null, does not throw and calls onError exactly once.
\* ------------------------------------------------------------------------
C6_ReadOutcome ==
  last.op = "render" =>
    /\ ~last.threw
    /\ store[key] = Absent => (storageValue = JNull /\ last.errors = 0)
    /\ Decodes(store[key]) =>
         (storageValue = JSONparse(store[key]).val /\ last.errors = 0)
    /\ Malformed(store[key]) => (storageValue = JNull /\ last.errors = 1)

\* a render of the mounted component read a malformed text
C6_Witness ==
  /\ last.op = "render"
  /\ phase = "mounted"
  /\ Malformed(store[key])
  /\ last.errors = 1

\* ------------------------------------------------------------------------
\* C7. Effective value definition, as claimed: value() is the decoded
\* stored value whenever the text decodes (also when it decodes to null),
\* else fallbackValue if configured, else null.
\* ------------------------------------------------------------------------
ClaimedEffectiveValue(text, fb) ==
  IF Decodes(text) THEN JSONparse(text).val
  ELSE IF fb # Undefined THEN fb
  ELSE JNull

C7_EffectiveValueAsClaimed ==
  last.op = "render" => hookValue = ClaimedEffectiveValue(store[key], fallbackValue)

\* C7 as amended: at every render value() is the decoded stored value when
\* the text decodes to a value other than null; otherwise (absent, malformed
\* or decoding to null) it is fallbackValue if configured, else null.
C7_EffectiveValue ==
  last.op = "render" =>
    hookValue =
      IF Decodes(store[key]) /\ JSONparse(store[key]).val # JNull
      THEN JSONparse(store[key]).val
      ELSE IF fallbackValue # Undefined THEN fallbackValue
      ELSE JNull

\* a render of the mounted component found the text "null" under the key
\* with a fallback configured
C7_Witness ==
  /\ last.op = "render"
  /\ phase = "mounted"
  /\ store[key] = TNull
  /\ fallbackValue # Undefined
  /\ hookValue = fallbackValue

\* ------------------------------------------------------------------------
\* C8. Fallback precedence, as claimed: after setValue(null) with
\* removeNullValues = true, from any state, the watched key is absent.
\* ------------------------------------------------------------------------
NullRemovalCalled ==
  last.op = "setValue" /\ last.newValue = JNull /\ removeNullValues

C8_AbsentMeansFallback ==
  (last.op = "render" /\ fallbackValue # Undefined /\ store[key] = Absent)
    => hookValue = fallbackValue

C8_RemovalLeavesAbsent ==
  (NullRemovalCalled /\ last.failed = "none") => store[key] = Absent

C8_NextValueIsFallback ==
  (NullRemovalCalled /\ last.failed = "none" /\ last'.op = "render"
     /\ fallbackValue' # Undefined)
    => (hookValue' = fallbackValue')

MountSyncDue ==
  /\ last.op = "mountSync"
  /\ last.syncFallbackOnMount
  /\ fallbackValue # Undefined
  /\ storageValue = JNull

C9_SyncedUnlessSetFailed ==
  (MountSyncDue /\ last.failed = "none") => store[key] = JSONstringify(fallbackValue)

C9_EffectRunsAtMount == last'.op = "mountSync" => phase = "subscribed"

C9_NoLaterSync ==
  phase \in {"mounted", "unmounted"}
    => (/\ phase' \in {"mounted", "unmounted"}
        /\ (store' # store => (last'.op = "setValue" \/ last' = Idle)))

C10_SetterNeverThrows ==
  [][(last'.op = "setValue" /\ last'.failed \in {"encode", "setItem", "removeItem"})
       => (~last'.threw /\ last'.errors = 1 /\ store' = store)]_vars

\* ------------------------------------------------------------------------
\* C11. Unsubscribe stops delivery: once the unsubscribe function has run,
\* no event delivered afterwards, whatever its key, store and texts, leads
\* to a call of notify or of onError; unsubscribe itself does not throw.
\* ------------------------------------------------------------------------
C11_UnsubscribeStopsDelivery ==
  /\ (phase = "unmounted" /\ last.op = "event")
       => (last.notify = 0 /\ last.errors = 0)
  /\ last.op = "unsubscribe" => ~last.threw
  /\ phase = "unmounted" => listeners = {}

\* after the unsubscribe, the creation of the watched key's entry in the
\* bound store was delivered, and nothing was called
C11_Witness ==
  /\ phase = "unmounted"
  /\ last.op = "event"
  /\ last.event.storageArea = "localStorage"
  /\ last.event.key = key
  /\ last.event.oldValue = Absent
  /\ last.event.newValue = TObjAB
  /\ last.notify = 0

\* ------------------------------------------------------------------------
\* C12. read() is pure with respect to the store: a render, which calls
\* read(), never sets or removes a key; two read() calls with no store
\* mutation between them return structurally equal results; and the value
\* a read() returned is the decoding of the text the store holds at that
\* moment, so no cached value survives a mutation of the store.
\* ------------------------------------------------------------------------
C12_ReadLeavesStore == last'.op = "render" => store' = store

C12_RepeatedReadsAgree ==
  (last.op = "render" /\ last'.op = "render" /\ key' = key /\ store' = store)
    => StructurallyEqual(storageValue, storageValue')

C12_ReadIsFresh ==
  last.op = "render" => StructurallyEqual(storageValue, ReadOfText(store[key]))

C12_ReadIsPure ==
  /\ [][C12_ReadLeavesStore]_vars
  /\ [][C12_RepeatedReadsAgree]_vars
  /\ []C12_ReadIsFresh

\* a read() after the setter replaced the text 5 by 6 returns 6
C12_Witness ==
  /\ last.op = "render"
  /\ phase = "mounted"
  /\ store[key] = <<"6">>
  /\ storageValue = JNum(6)

\* ------------------------------------------------------------------------
\* C13. Mount sync never overwrites an existing entry: when the watched key
\* holds a text at initialization, be it well-formed, a text decoding to
\* null such as "null", or malformed, the mount effect leaves the store
\* unchanged, whatever syncFallbackOnMount and the fallback are. The text
\* is the one the first render read: the store still holds a text whose
\* reading is storageValue.
\* ------------------------------------------------------------------------
C13_EntryHeldSinceFirstRender ==
  /\ store[key] # Absent
  /\ ReadOfText(store[key]) = storageValue

C13_KeepsExistingEntry ==
  (last'.op = "mountSync" /\ C13_EntryHeldSinceFirstRender) => store' = store

C13_MountSyncNeverOverwrites == [][C13_KeepsExistingEntry]_vars

\* ------------------------------------------------------------------------
\* C14. Mount-sync write failure is reported, not thrown: when the mount
\* effect writes the fallback and the store's set fails, onError is called
\* once and no exception escapes.
\* ------------------------------------------------------------------------
C14_MountSyncFailureReported ==
  (last.op = "mountSync" /\ last.failed = "setItem")
    => (~last.threw /\ last.errors = 1)

\* ------------------------------------------------------------------------
\* C15. Decode failure in the filter suppresses the signal: for an event on
\* the watched key of the bound store whose old and new texts are both
\* present and at least one of them is malformed, the listener calls onError
\* exactly once and notify not at all, and no exception escapes.
\* ------------------------------------------------------------------------
C15_DecodeFailureSuppressesSignal ==
  (/\ DeliveredToWatcher
   /\ last.event.oldValue # Absent
   /\ last.event.newValue # Absent
   /\ (Malformed(last.event.oldValue) \/ Malformed(last.event.newValue)))
    => (last.errors = 1 /\ last.notify = 0 /\ ~last.threw)

\* a well-formed text of the watched key was replaced by a malformed one
\* and the listener reported one error
C15_Witness ==
  /\ DeliveredToWatcher
  /\ last.event.oldValue = TObjAB
  /\ last.event.newValue = TBad
  /\ last.errors = 1

\* ------------------------------------------------------------------------
\* C16. A throwing updater aborts the write: when the updater function
\* passed to setValue throws, onError is called exactly once, setValue
\* returns without throwing, and the store is unchanged: neither set nor
\* remove is called.
\* ------------------------------------------------------------------------
C16_UpdaterThrew == last'.op = "setValue" /\ last'.failed = "updater"

C16_WriteAborted ==
  C16_UpdaterThrew
    => (/\ last'.errors = 1
        /\ ~last'.threw
        /\ last'.mutator = "none"
        /\ store' = store)

C16_ThrowingUpdaterAborts == [][C16_WriteAborted]_vars

\* the updater threw while the watched key held a text, and the text is
\* still there
C16_Witness ==
  /\ last.op = "setValue"
  /\ last.failed = "updater"
  /\ last.errors = 1
  /\ store[key] = TObjAB

\* ------------------------------------------------------------------------
\* C17. No notify loop and no self-notify: handling an event and calling
\* read() never write to or remove from the store; a local setValue never
\* calls the subscription's notify; and one external event leads to at most
\* one notify and to no store mutation by the controller.
\* ------------------------------------------------------------------------
C17_HandlingLeavesStore == last'.op \in {"event", "render"} => store' = store

C17_NoSelfNotify == last.op = "setValue" => last.notify = 0

C17_AtMostOneNotify == last.op = "event" => last.notify <= 1

C17_NoNotifyLoop ==
  /\ [][C17_HandlingLeavesStore]_vars
  /\ []C17_NoSelfNotify
  /\ []C17_AtMostOneNotify

\* the setter replaced the text of the watched key while the listener was
\* registered, and notify was not called
C17_Witness ==
  /\ last.op = "setValue"
  /\ key \in listeners
  /\ last.mutator = "setItem"
  /\ last.failed = "none"
  /\ store[key] = TObjAB
  /\ last.notify = 0

\* ------------------------------------------------------------------------
\* C18. deepEqual is structural equality: on every pair of JSON values of
\* bounded depth and size deepEqual(a, b) is the reference structural
\* equality of a and b (primitives without coercion, null only equal to
\* null, arrays by length and order, an array never equal to an object,
\* objects by key set whatever the insertion order), and it is symmetric.
\* ------------------------------------------------------------------------
C18_DeepEqualIsStructural ==
  last.op = "deepEqual"
    => (/\ last.result = StructurallyEqual(last.v1, last.v2)
        /\ last.result = deepEqual(last.v2, last.v1))

\* ------------------------------------------------------------------------
\* C19. Resubscription follows the watched key: after the key changes from
\* k1 to k2 the listener filtering on k1 is removed and one filtering on k2
\* is registered, so that later events for k1 never call notify and
\* value-changing events for k2 do; at every moment at most one listener is
\* registered.
\* ------------------------------------------------------------------------
C19_ValueChanging(event) ==
  ~StructurallyEqual(ReadOfText(event.oldValue), ReadOfText(event.newValue))

C20_NullWritten == last.op = "setValue" /\ last.newValue = JNull

====
